---- MODULE Spec2Model ----
(***************************************************************************)
(* Model of the IntelliFire dual-mode update coordinator                   *)
(* (custom_components/intellifire_hacs/coordinator.py) and of the switch   *)
(* entities that drive it (switch.py).                                     *)
(*                                                                         *)
(* The coordinator owns two transports ("local", "cloud") and two mode     *)
(* flags.  Coroutines are cut at their awaits: every action below is the   *)
(* code that runs between two suspension points, so that the background    *)
(* polling tasks of the transports, a refresh and a mode switch interleave *)
(* exactly where the event loop can interleave them.                       *)
(***************************************************************************)
EXTENDS Integers, Sequences, FiniteSets, TLC

\* IntelliFireApiMode
Modes == {"LOCAL", "CLOUD"}

\* self._local_api, self._cloud_api
Apis == {"local", "cloud"}

\* Snapshots are abstract values 0..MaxSnap (the device state a poll reads).
MaxSnap == 1

Snapshots == 0..MaxSnap

\* "if self._local_api.failed_poll_attempts > 10"
FailedLimit == 10

\* Cap of the consecutive-failure counter in the model.
MaxFailed == 11

\* Switch commands that go through get_control_api()
Commands == {"flame_on", "flame_off", "pilot_on", "pilot_off"}

\* Outcomes of the forced synchronous poll under "async with timeout(15)"
PollOutcomes == {"ok", "ConnectionError", "ClientConnectionError", "TimeoutError"}

\* The calls of set_control_mode that can be in flight: the on_fn and off_fn
\* of the cloud_control switch.
Tasks == {"cmd", "cmd2"}

\* The slot in use when the host runs one command of the switch at a time.
Serialized == {"cmd"}

VARIABLES
    read_mode,              \* self._read_mode
    control_mode,           \* self._control_mode
    polling,                \* api -> is_polling_in_background
    data,                   \* api -> the transport's cached snapshot (.data)
    failed_poll_attempts,   \* self._local_api.failed_poll_attempts
    pc,                     \* task -> position inside set_control_mode
    current_mode,           \* task -> local variable current_mode
    ho_log,                 \* task -> transport calls made by the handover so far
    ho_snap,                \* task -> snapshot of the old transport at the call
    ho_polled,              \* task -> a poll has replaced a snapshot since the call
    rf_pc,                  \* position inside _async_update_data
    rf_read_api,            \* local variable read_api
    rf_read_mode,           \* local variable read_mode
    rf_log,                 \* transport calls made by this refresh so far
    rf_over,                \* the counter exceeded the limit when the refresh began
    obs,                    \* the last thing a caller observed (return value, raise)
    setup,                  \* async_setup_entry: position, locals, outcome
    fireplace,              \* fireplace.data: ipv4_address and serial
    hass_data,              \* hass.data[DOMAIN] holds the entry's coordinator
    forwarded,              \* the entry's platforms have been forwarded
    sw,                     \* a switch entity's async_turn_on/async_turn_off call
    attr_device_info,       \* an entity's _attr_device_info
    device_info_read        \* the last device_info a caller read, and from where

vars == <<read_mode, control_mode, polling, data, failed_poll_attempts,
          pc, current_mode, ho_log, ho_snap, ho_polled,
          rf_pc, rf_read_api, rf_read_mode, rf_log, rf_over, obs,
          setup, fireplace, hass_data, forwarded,
          sw, attr_device_info, device_info_read>>

setupVars == <<setup, fireplace, hass_data, forwarded>>

entityVars == <<sw, attr_device_info, device_info_read>>

coordVars == <<read_mode, control_mode, polling, data, failed_poll_attempts>>

taskVars == <<pc, current_mode, ho_log, ho_snap, ho_polled>>

refreshVars == <<rf_pc, rf_read_api, rf_read_mode, rf_log, rf_over>>

coordinatorVars == <<coordVars, taskVars, refreshVars, obs>>

NoObs ==
    [ev |-> "none", api |-> "none", res |-> "none", val |-> -1,
     mode |-> "none", from |-> "none", log |-> <<>>, snap |-> -1,
     polled |-> FALSE, poll |-> "none", at |-> "none", over |-> FALSE,
     key |-> "none", on |-> FALSE]

----------------------------------------------------------------------------
(* The transports (intellifire4py): what the coordinator relies on.        *)

StartPolling(p, api) == [p EXCEPT ![api] = TRUE]

StopPolling(p, api) == [p EXCEPT ![api] = FALSE]

OverwriteData(d, api, snapshot) == [d EXCEPT ![api] = snapshot]

\* A successful poll replaces the snapshot wholesale.
PollData(d, api, snapshot) == [d EXCEPT ![api] = snapshot]

\* Every in-flight handover has now seen a snapshot replaced by a poll.
MarkPolled == [t \in Tasks |-> IF pc[t] = "idle" THEN FALSE ELSE TRUE]

----------------------------------------------------------------------------
(* Selectors                                                               *)

get_read_api_ByControl == IF control_mode = "LOCAL" THEN "local" ELSE "cloud"

get_read_api == IF read_mode = "LOCAL" THEN "local" ELSE "cloud"

get_control_api == IF control_mode = "LOCAL" THEN "local" ELSE "cloud"

get_read_mode == read_mode

get_control_mode == control_mode

GetReadApi ==
    /\ obs' = [NoObs EXCEPT !.ev = "get_read_api", !.api = get_read_api]
    /\ UNCHANGED <<coordVars, taskVars, refreshVars>>

GetControlApi ==
    /\ obs' = [NoObs EXCEPT !.ev = "get_control_api", !.api = get_control_api]
    /\ UNCHANGED <<coordVars, taskVars, refreshVars>>

----------------------------------------------------------------------------
(* set_read_mode: no await inside, one step.                               *)

SetReadMode_StartsPolling(mode) ==
    /\ read_mode' = mode
    /\ polling' = [polling EXCEPT ![IF mode = "LOCAL" THEN "local" ELSE "cloud"] = TRUE]
    /\ obs' = [NoObs EXCEPT !.ev = "set_read_mode", !.mode = mode]
    /\ UNCHANGED <<control_mode, data, failed_poll_attempts, taskVars, refreshVars>>

SetReadMode(mode) ==
    /\ read_mode' = mode
    /\ obs' = [NoObs EXCEPT !.ev = "set_read_mode", !.mode = mode]
    /\ UNCHANGED <<control_mode, polling, data, failed_poll_attempts,
                   taskVars, refreshVars>>

----------------------------------------------------------------------------
(* set_control_mode, cut at its two awaits.                                *)

SameMode_ByRead(mode) == read_mode = mode

\* "if current_mode == mode: return"
SameMode(mode) == control_mode = mode

\* The transport stopped by the branch taken for current_mode.
HandoverFrom(cur) == IF cur = "LOCAL" THEN "local" ELSE "cloud"

\* The transport overwritten and started by the branch taken for current_mode.
HandoverTo(cur) == IF cur = "LOCAL" THEN "cloud" ELSE "local"

HandoverCopy_Reversed(d, cur) ==
    OverwriteData(d, HandoverFrom(cur), d[HandoverTo(cur)])

\* "self._cloud_api.overwrite_data(self._local_api.data)" and its mirror
HandoverCopy(d, cur) ==
    OverwriteData(d, HandoverTo(cur), d[HandoverFrom(cur)])

\* Entry up to the first await: the no-op return, or stop_background_polling()
\* on the transport of the current mode.
SetControlModeCall(t, mode) ==
    /\ pc[t] = "idle"
    /\ IF SameMode(mode)
         THEN /\ obs' = [NoObs EXCEPT !.ev = "set_control_mode", !.res = "noop",
                                      !.mode = mode, !.from = control_mode]
              /\ UNCHANGED <<coordVars, taskVars>>
         ELSE /\ polling' = StopPolling(polling, HandoverFrom(control_mode))
              /\ pc' = [pc EXCEPT ![t] = "await_stop"]
              /\ current_mode' = [current_mode EXCEPT ![t] = control_mode]
              /\ ho_log' = [ho_log EXCEPT ![t] =
                              << <<"stop_background_polling",
                                   HandoverFrom(control_mode)>> >>]
              /\ ho_snap' = [ho_snap EXCEPT ![t] = data[HandoverFrom(control_mode)]]
              /\ ho_polled' = [ho_polled EXCEPT ![t] = FALSE]
              /\ obs' = NoObs
              /\ UNCHANGED <<read_mode, control_mode, data, failed_poll_attempts>>
    /\ UNCHANGED refreshVars

\* After the stop returned: overwrite_data() and the call of
\* start_background_polling() on the target, up to its await.
SetControlModeCopy(t) ==
    /\ pc[t] = "await_stop"
    /\ data' = HandoverCopy(data, current_mode[t])
    /\ polling' = StartPolling(polling, HandoverTo(current_mode[t]))
    /\ pc' = [pc EXCEPT ![t] = "await_start"]
    /\ ho_log' = [ho_log EXCEPT ![t] =
                    @ \o << <<"overwrite_data", HandoverTo(current_mode[t])>>,
                            <<"start_background_polling",
                              HandoverTo(current_mode[t])>> >>]
    /\ obs' = NoObs
    /\ UNCHANGED <<read_mode, control_mode, failed_poll_attempts,
                   current_mode, ho_snap, ho_polled, refreshVars>>

\* The start returned and set_control_mode returns.  self._control_mode is
\* not assigned anywhere in the method.
SetControlModeReturn(t) ==
    /\ pc[t] = "await_start"
    /\ obs' = [NoObs EXCEPT !.ev = "set_control_mode", !.res = "handover",
                            !.from = current_mode[t],
                            !.mode = IF current_mode[t] = "LOCAL"
                                       THEN "CLOUD" ELSE "LOCAL",
                            !.log = ho_log[t],
                            !.snap = ho_snap[t],
                            !.polled = ho_polled[t],
                            !.api = get_control_api,
                            !.val = data[get_control_api]]
    /\ pc' = [pc EXCEPT ![t] = "idle"]
    /\ current_mode' = [current_mode EXCEPT ![t] = "none"]
    /\ ho_log' = [ho_log EXCEPT ![t] = <<>>]
    /\ ho_snap' = [ho_snap EXCEPT ![t] = -1]
    /\ ho_polled' = [ho_polled EXCEPT ![t] = FALSE]
    /\ UNCHANGED <<coordVars, refreshVars>>

----------------------------------------------------------------------------
(* Switch commands: on_fn/off_fn of the on_off and pilot switches.         *)

SwitchCommand(c) ==
    /\ obs' = [NoObs EXCEPT !.ev = c, !.api = get_control_api]
    /\ UNCHANGED <<coordVars, taskVars, refreshVars>>

----------------------------------------------------------------------------
(* _async_update_data (the refresh), cut at its two awaits.                *)

NeedsStart_Always(api) == TRUE

\* "if not read_api.is_polling_in_background"
NeedsStart(api) == ~polling[api]

ForcedPoll_Always(mode) == TRUE

\* "if read_mode == IntelliFireApiMode.LOCAL"
ForcedPoll(mode) == mode = "LOCAL"

Caught_OnlyConnectionError(outcome) == outcome = "ConnectionError"

\* "except (ConnectionError, ClientConnectionError) as exception"
Caught(outcome) == outcome \in {"ConnectionError", "ClientConnectionError"}

TooManyFailures_OnlyLocalRead(f) == f > FailedLimit /\ read_mode = "LOCAL"

\* "if self._local_api.failed_poll_attempts > 10"
TooManyFailures(f) == f > FailedLimit

ReturnValue_Local(d, api) == d["local"]

\* "return read_api.data"
ReturnValue(d, api) == d[api]

\* What the caller of the refresh sees when it ends at the threshold check,
\* with d and f the snapshots and the counter at that moment.
ThresholdCheck(api, mode, log, poll, over, d, f) ==
    IF TooManyFailures(f)
      THEN [NoObs EXCEPT !.ev = "refresh", !.res = "UpdateFailed", !.at = "check",
                         !.api = api, !.mode = mode, !.log = log, !.poll = poll,
                         !.over = over]
      ELSE [NoObs EXCEPT !.ev = "refresh", !.res = "data", !.at = "check",
                         !.val = ReturnValue(d, api),
                         !.api = api, !.mode = mode, !.log = log, !.poll = poll,
                         !.over = over]

RefreshIdle ==
    /\ rf_pc' = "idle"
    /\ rf_read_api' = "none"
    /\ rf_read_mode' = "none"
    /\ rf_log' = <<>>
    /\ rf_over' = FALSE

\* Entry: pick read_api and read_mode; start background polling when it is not
\* running (first await), else go straight to the threshold check.
UpdateBegin ==
    /\ rf_pc = "idle"
    /\ IF NeedsStart(get_read_api)
         THEN /\ polling' = StartPolling(polling, get_read_api)
              /\ rf_pc' = "await_start"
              /\ rf_read_api' = get_read_api
              /\ rf_read_mode' = get_read_mode
              /\ rf_log' = << <<"start_background_polling", get_read_api>> >>
              /\ rf_over' = (failed_poll_attempts > FailedLimit)
              /\ obs' = NoObs
         ELSE /\ obs' = ThresholdCheck(get_read_api, get_read_mode, <<>>, "none",
                                       failed_poll_attempts > FailedLimit,
                                       data, failed_poll_attempts)
              /\ UNCHANGED <<polling, refreshVars>>
    /\ UNCHANGED <<read_mode, control_mode, data, failed_poll_attempts, taskVars>>

\* The start returned: call poll() on the local transport when the read mode
\* picked at entry is LOCAL (second await), else the threshold check.
UpdateAfterStart ==
    /\ rf_pc = "await_start"
    /\ IF ForcedPoll(rf_read_mode)
         THEN /\ rf_pc' = "await_poll"
              /\ rf_log' = Append(rf_log, <<"poll", "local">>)
              /\ obs' = NoObs
              /\ UNCHANGED <<rf_read_api, rf_read_mode, rf_over>>
         ELSE /\ obs' = ThresholdCheck(rf_read_api, rf_read_mode, rf_log, "none",
                                       rf_over, data, failed_poll_attempts)
              /\ RefreshIdle
    /\ UNCHANGED <<coordVars, taskVars>>

\* The forced poll ends: with a new snapshot, with a connection error, or cut
\* off by timeout(15).
UpdatePollDone(outcome, snapshot) ==
    /\ rf_pc = "await_poll"
    /\ \/ /\ outcome = "ok"
          /\ data' = PollData(data, "local", snapshot)
          /\ failed_poll_attempts' = 0
          /\ ho_polled' = MarkPolled
          /\ obs' = ThresholdCheck(rf_read_api, rf_read_mode, rf_log, outcome,
                                   rf_over, data', failed_poll_attempts')
       \/ /\ outcome \in {"ConnectionError", "ClientConnectionError"}
          /\ failed_poll_attempts < MaxFailed
          /\ failed_poll_attempts' = failed_poll_attempts + 1
          /\ obs' = [NoObs EXCEPT !.ev = "refresh",
                                  !.res = IF Caught(outcome) THEN "UpdateFailed"
                                                             ELSE outcome,
                                  !.at = "poll", !.api = rf_read_api,
                                  !.mode = rf_read_mode, !.log = rf_log,
                                  !.poll = outcome, !.over = rf_over]
          /\ UNCHANGED <<data, ho_polled>>
       \/ /\ outcome = "TimeoutError"
          /\ obs' = [NoObs EXCEPT !.ev = "refresh", !.res = "TimeoutError",
                                  !.at = "poll", !.api = rf_read_api,
                                  !.mode = rf_read_mode, !.log = rf_log,
                                  !.poll = outcome, !.over = rf_over]
          /\ UNCHANGED <<data, failed_poll_attempts, ho_polled>>
    /\ RefreshIdle
    /\ UNCHANGED <<read_mode, control_mode, polling, pc, current_mode, ho_log,
                   ho_snap>>

----------------------------------------------------------------------------
(* The transports' own background polling tasks.                           *)

\* A background poll of a polling transport succeeds: new snapshot, and the
\* local transport's consecutive-failure counter starts over.
BackgroundPollOk(api, snapshot) ==
    /\ polling[api]
    /\ data' = PollData(data, api, snapshot)
    /\ failed_poll_attempts' = IF api = "local" THEN 0 ELSE failed_poll_attempts
    /\ ho_polled' = MarkPolled
    /\ obs' = NoObs
    /\ UNCHANGED <<read_mode, control_mode, polling, pc, current_mode, ho_log,
                   ho_snap, refreshVars>>

\* A background poll of the local transport fails.
BackgroundPollFail ==
    /\ polling["local"]
    /\ failed_poll_attempts < MaxFailed
    /\ failed_poll_attempts' = failed_poll_attempts + 1
    /\ obs' = NoObs
    /\ UNCHANGED <<read_mode, control_mode, polling, data, taskVars, refreshVars>>

----------------------------------------------------------------------------
(* async_setup_entry (__init__.py), cut at its awaits.                     *)

\* "timeout=600" of the wait for initialization
InitTimeout == 600

\* "await asyncio.sleep(10)"
SleepSeconds == 10

\* Outcomes of perform_local_poll() / perform_cloud_poll() under wait_for
ProbeOutcomes == {"ok", "error", "timeout"}

\* Values of fireplace.data.ipv4_address and fireplace.data.serial
Addresses == {"127.0.0.1", "192.168.1.20"}

Serials == {"unset", "SN1"}

\* The identity of a freshly built fireplace.
FactoryDefault == [ipv4_address |-> "127.0.0.1", serial |-> "unset"]

SetupIdle ==
    [pc |-> "idle", result |-> "none", username |-> FALSE,
     local_connect |-> FALSE, cloud_connect |-> FALSE,
     elapsed |-> 0, constructed |-> FALSE]

\* with_timeout: True when the poll returned, False on TimeoutError or on
\* any other exception
ProbeSuccess(outcome) == outcome = "ok"

BothFailed_EitherFailed(local_connect, cloud_connect) ==
    ~local_connect \/ ~cloud_connect

\* "if (local_connect, cloud_connect) == (False, False)"
BothFailed(local_connect, cloud_connect) ==
    local_connect = FALSE /\ cloud_connect = FALSE

\* "fireplace.data.ipv4_address == '127.0.0.1' and fireplace.data.serial == 'unset'"
StillInitializing(f) == f.ipv4_address = "127.0.0.1" /\ f.serial = "unset"

\* Entry: the credentials test, then build_fireplace_from_common (first await).
SetupBegin(username) ==
    /\ setup.pc \in {"idle", "done"}
    /\ ~hass_data
    /\ IF ~username
         THEN /\ setup' = [SetupIdle EXCEPT !.pc = "done",
                                            !.result = "ConfigEntryAuthFailed"]
              /\ UNCHANGED fireplace
         ELSE /\ setup' = [SetupIdle EXCEPT !.pc = "probe", !.username = TRUE]
              /\ fireplace' = FactoryDefault
    /\ UNCHANGED <<hass_data, forwarded>>

\* _async_validate_connectivity and the test of its two results.
SetupValidateConnectivity(local_outcome, cloud_outcome) ==
    /\ setup.pc = "probe"
    /\ LET local_connect == ProbeSuccess(local_outcome)
           cloud_connect == ProbeSuccess(cloud_outcome)
       IN  setup' = IF BothFailed(local_connect, cloud_connect)
                      THEN [setup EXCEPT !.pc = "done",
                                         !.local_connect = local_connect,
                                         !.cloud_connect = cloud_connect,
                                         !.result = "ConfigEntryAuthFailed"]
                      ELSE [setup EXCEPT !.pc = "wait",
                                         !.local_connect = local_connect,
                                         !.cloud_connect = cloud_connect]
    /\ UNCHANGED <<fireplace, hass_data, forwarded>>

\* The device's polled identity leaves a placeholder, one field at a time.
DeviceReports(field) ==
    /\ setup.pc \in {"probe", "sleep"}
    /\ \/ /\ field = "ipv4_address"
          /\ fireplace.ipv4_address = "127.0.0.1"
          /\ fireplace' = [fireplace EXCEPT !.ipv4_address = "192.168.1.20"]
       \/ /\ field = "serial"
          /\ fireplace.serial = "unset"
          /\ fireplace' = [fireplace EXCEPT !.serial = "SN1"]
    /\ UNCHANGED <<setup, hass_data, forwarded>>

\* The loop test of _async_wait_for_initialization; when it fails the wait
\* returns and the coordinator is constructed, up to the await of the first
\* refresh.
SetupWaitCheck ==
    /\ setup.pc = "wait"
    /\ setup' = IF StillInitializing(fireplace)
                  THEN [setup EXCEPT !.pc = "sleep"]
                  ELSE [setup EXCEPT !.pc = "refresh", !.constructed = TRUE]
    /\ UNCHANGED <<fireplace, hass_data, forwarded>>

\* asyncio.sleep(10) inside wait_for(..., timeout=600): the sleep ends, or the
\* timeout cancels the wait and TimeoutError is raised.
SetupWaitSleep ==
    /\ setup.pc = "sleep"
    /\ setup' = IF setup.elapsed + SleepSeconds >= InitTimeout
                  THEN [setup EXCEPT !.pc = "done", !.result = "TimeoutError",
                                     !.elapsed = InitTimeout]
                  ELSE [setup EXCEPT !.pc = "wait",
                                     !.elapsed = @ + SleepSeconds]
    /\ UNCHANGED <<fireplace, hass_data, forwarded>>

\* async_config_entry_first_refresh: it returns and the coordinator is put
\* into hass.data, or it raises ConfigEntryNotReady.
SetupFirstRefresh(ok) ==
    /\ setup.pc = "refresh"
    /\ IF ok
         THEN /\ hass_data' = TRUE
              /\ setup' = [setup EXCEPT !.pc = "forward"]
         ELSE /\ setup' = [setup EXCEPT !.pc = "done",
                                        !.result = "ConfigEntryNotReady"]
              /\ UNCHANGED hass_data
    /\ UNCHANGED <<fireplace, forwarded>>

\* async_forward_entry_setups returned; the update listener is added and
\* setup returns True.
SetupForward ==
    /\ setup.pc = "forward"
    /\ forwarded' = TRUE
    /\ setup' = [setup EXCEPT !.pc = "done", !.result = "True"]
    /\ UNCHANGED <<fireplace, hass_data>>

UnloadPops_Always(unload_ok) == TRUE

\* "if unload_ok := await ...async_unload_platforms(entry, PLATFORMS)"
UnloadPops(unload_ok) == unload_ok

\* async_unload_entry of a loaded entry: the platforms unload or fail to,
\* the coordinator is popped from hass.data when they did, and unload_ok is
\* returned.
AsyncUnloadEntry(unload_ok) ==
    /\ setup.pc = "done"
    /\ setup.result = "True"
    /\ hass_data
    /\ hass_data' = ~UnloadPops(unload_ok)
    /\ forwarded' = ~unload_ok
    /\ obs' = [NoObs EXCEPT !.ev = "async_unload_entry", !.on = unload_ok]
    /\ UNCHANGED <<setup, fireplace, coordVars, taskVars, refreshVars>>

NextSetup ==
    \/ \E unload_ok \in BOOLEAN : AsyncUnloadEntry(unload_ok) /\ UNCHANGED entityVars
    \/ \E username \in BOOLEAN : SetupBegin(username) /\ UNCHANGED <<coordinatorVars, entityVars>>
    \/ \E lo \in ProbeOutcomes, co \in ProbeOutcomes :
          SetupValidateConnectivity(lo, co) /\ UNCHANGED <<coordinatorVars, entityVars>>
    \/ \E field \in {"ipv4_address", "serial"} :
          DeviceReports(field) /\ UNCHANGED <<coordinatorVars, entityVars>>
    \/ SetupWaitCheck /\ UNCHANGED <<coordinatorVars, entityVars>>
    \/ SetupWaitSleep /\ UNCHANGED <<coordinatorVars, entityVars>>
    \/ \E ok \in BOOLEAN : SetupFirstRefresh(ok) /\ UNCHANGED <<coordinatorVars, entityVars>>
    \/ SetupForward /\ UNCHANGED <<coordinatorVars, entityVars>>

----------------------------------------------------------------------------
(* The device_info property and the entities (entity.py, switch.py).       *)

\* str() of a snapshot field, as its sequence of characters
Str(x) == <<x>>

\* f"{data.serial}]"
SerialIdentifier(serial) == Str(serial) \o <<"]">>

\* The serial and the firmware version held by a snapshot.
SerialOf(snapshot) == snapshot

FwVerStrOf(snapshot) == snapshot

\* IntelliFireDataUpdateCoordinator.device_info, given the transports'
\* snapshots and the read transport
device_info(d, api) ==
    [identifiers |-> <<"IntelliFire", SerialIdentifier(SerialOf(d[api]))>>,
     sw_version  |-> FwVerStrOf(d[api])]

NoDeviceInfo == [identifiers |-> <<>>, sw_version |-> -1]

NoRead == [by |-> "none", value |-> NoDeviceInfo]

\* The keys of INTELLIFIRE_SWITCHES
SwitchKeys == {"on_off", "pilot", "cloud_read", "cloud_control"}

\* async_turn_on / async_turn_off
Turns == {"on", "off"}

\* How the awaited on_fn/off_fn of the on_off and pilot switches ends
CommandOutcomes == {"ok", "raise"}

SwitchIdle ==
    [pc |-> "idle", key |-> "none", turn |-> "none", log |-> <<>>,
     result |-> "none"]

\* on_fn / off_fn of the on_off and pilot switches
CommandOf(key, turn) ==
    IF key = "on_off"
      THEN (IF turn = "on" THEN "flame_on" ELSE "flame_off")
      ELSE (IF turn = "on" THEN "pilot_on" ELSE "pilot_off")

\* on_fn / off_fn of the cloud_read and cloud_control switches
ModeOf(turn) == IF turn = "on" THEN "CLOUD" ELSE "LOCAL"

ReReadAfter_Always(outcome) == TRUE

\* "await on_fn(coordinator)" then "await async_update_ha_state(force_refresh=True)":
\* the second statement is reached when the first returned
ReReadAfter(outcome) == outcome = "ok"

\* The keys of the two mode sensors of INTELLIFIRE_SENSORS
ModeSensorKeys == {"control_mode", "read_mode"}

\* The keys of the two mode switches of INTELLIFIRE_SWITCHES
ModeSwitchKeys == {"cloud_read", "cloud_control"}

\* IntelliFireApiMode.name.lower()
NameLower(mode) == IF mode = "LOCAL" THEN "local" ELSE "cloud"

\* value_fn of the sensors with key control_mode and read_mode
SensorValueFn(key) ==
    IF key = "control_mode" THEN NameLower(get_read_mode)
                            ELSE NameLower(get_control_mode)

\* value_fn of the cloud_read and cloud_control switches
SwitchValueFn(key) ==
    IF key = "cloud_read" THEN get_read_mode = "CLOUD"
                          ELSE get_control_mode = "CLOUD"

\* IntelliFireSensor.native_value
SensorNativeValue(key) ==
    /\ obs' = [NoObs EXCEPT !.ev = "native_value", !.key = key,
                            !.res = SensorValueFn(key)]
    /\ UNCHANGED <<coordVars, taskVars, refreshVars>>

\* IntelliFireSwitch.is_on
SwitchIsOn(key) ==
    /\ obs' = [NoObs EXCEPT !.ev = "is_on", !.key = key,
                            !.on = SwitchValueFn(key)]
    /\ UNCHANGED <<coordVars, taskVars, refreshVars>>

\* IntellifireEntity.__init__: "self._attr_device_info = self.coordinator.device_info"
EntityConstruct ==
    /\ attr_device_info = NoDeviceInfo
    /\ attr_device_info' = device_info(data, get_read_api)
    /\ device_info_read' = NoRead
    /\ UNCHANGED <<coordinatorVars, sw>>

\* A read of the entity's device_info: the stored _attr_device_info.
EntityDeviceInfo ==
    /\ attr_device_info # NoDeviceInfo
    /\ device_info_read' = [by |-> "entity", value |-> attr_device_info]
    /\ UNCHANGED <<coordinatorVars, sw, attr_device_info>>

\* A read of coordinator.device_info.
CoordinatorDeviceInfo ==
    /\ device_info_read' = [by |-> "coordinator",
                            value |-> device_info(data, get_read_api)]
    /\ UNCHANGED <<coordinatorVars, sw, attr_device_info>>

\* async_turn_on / async_turn_off of the on_off and pilot switches, up to the
\* await of the transport's command.
SwitchTurnCommand(key, turn) ==
    /\ sw.pc = "idle"
    /\ key \in {"on_off", "pilot"}
    /\ SwitchCommand(CommandOf(key, turn))
    /\ sw' = [SwitchIdle EXCEPT !.pc = "command", !.key = key, !.turn = turn]
    /\ device_info_read' = NoRead
    /\ UNCHANGED attr_device_info

\* The transport's command returns or raises.
SwitchCommandDone(outcome) ==
    /\ sw.pc = "command"
    /\ sw.key \in {"on_off", "pilot"}
    /\ sw' = IF ReReadAfter(outcome)
               THEN [sw EXCEPT !.pc = "reread",
                               !.log = Append(@, IF outcome = "ok" THEN "command"
                                                                   ELSE "raise")]
               ELSE [sw EXCEPT !.pc = "idle", !.log = Append(@, "raise"),
                               !.result = "raised"]
    /\ device_info_read' = NoRead
    /\ UNCHANGED <<coordinatorVars, attr_device_info>>

\* async_turn_on / async_turn_off of the cloud_read switch: set_read_mode has
\* no await of its own and returns at once.
SwitchTurnReadMode(turn) ==
    /\ sw.pc = "idle"
    /\ SetReadMode(ModeOf(turn))
    /\ sw' = [SwitchIdle EXCEPT !.pc = "reread", !.key = "cloud_read",
                                !.turn = turn, !.log = <<"command">>]
    /\ device_info_read' = NoRead
    /\ UNCHANGED attr_device_info

\* async_turn_on / async_turn_off of the cloud_control switch: the entry of
\* set_control_mode, which returns at once for the same mode.
SwitchTurnControlMode(turn) ==
    /\ sw.pc = "idle"
    /\ SetControlModeCall("cmd", ModeOf(turn))
    /\ sw' = IF SameMode(ModeOf(turn))
               THEN [SwitchIdle EXCEPT !.pc = "reread", !.key = "cloud_control",
                                       !.turn = turn, !.log = <<"command">>]
               ELSE [SwitchIdle EXCEPT !.pc = "command", !.key = "cloud_control",
                                       !.turn = turn]
    /\ device_info_read' = NoRead
    /\ UNCHANGED attr_device_info

SwitchControlModeCopy ==
    /\ sw.pc = "command"
    /\ sw.key = "cloud_control"
    /\ SetControlModeCopy("cmd")
    /\ device_info_read' = NoRead
    /\ UNCHANGED <<sw, attr_device_info>>

SwitchControlModeReturn ==
    /\ sw.pc = "command"
    /\ sw.key = "cloud_control"
    /\ SetControlModeReturn("cmd")
    /\ sw' = [sw EXCEPT !.pc = "reread", !.log = Append(@, "command")]
    /\ device_info_read' = NoRead
    /\ UNCHANGED attr_device_info

\* async_update_ha_state(force_refresh=True): the coordinator's refresh is
\* entered for this entity.
SwitchReRead ==
    /\ sw.pc = "reread"
    /\ UpdateBegin
    /\ sw' = [sw EXCEPT !.pc = "idle", !.log = Append(@, "reread"),
                        !.result = "done"]
    /\ device_info_read' = NoRead
    /\ UNCHANGED attr_device_info

NextEntity ==
    \/ EntityConstruct /\ UNCHANGED setupVars
    \/ EntityDeviceInfo /\ UNCHANGED setupVars
    \/ CoordinatorDeviceInfo /\ UNCHANGED setupVars
    \/ \E key \in SwitchKeys, turn \in Turns :
          SwitchTurnCommand(key, turn) /\ UNCHANGED setupVars
    \/ \E outcome \in CommandOutcomes :
          SwitchCommandDone(outcome) /\ UNCHANGED setupVars
    \/ \E turn \in Turns : SwitchTurnReadMode(turn) /\ UNCHANGED setupVars
    \/ \E turn \in Turns : SwitchTurnControlMode(turn) /\ UNCHANGED setupVars
    \/ SwitchControlModeCopy /\ UNCHANGED setupVars
    \/ SwitchControlModeReturn /\ UNCHANGED setupVars
    \/ SwitchReRead /\ UNCHANGED setupVars
    \/ UpdateAfterStart /\ UNCHANGED <<setupVars, sw, attr_device_info>>
                        /\ device_info_read' = NoRead
    \/ \E outcome \in PollOutcomes, snapshot \in Snapshots :
          /\ UpdatePollDone(outcome, snapshot)
          /\ UNCHANGED <<setupVars, sw, attr_device_info>>
          /\ device_info_read' = NoRead
    \/ \E api \in Apis, snapshot \in Snapshots :
          /\ BackgroundPollOk(api, snapshot)
          /\ UNCHANGED <<setupVars, sw, attr_device_info>>
          /\ device_info_read' = NoRead

----------------------------------------------------------------------------
(* IntelliFireDataUpdateCoordinator.__init__: the mode flags are the       *)
(* constructor's arguments; no transport is polling yet.                   *)

Init ==
    /\ read_mode \in Modes
    /\ control_mode \in Modes
    /\ polling = [a \in Apis |-> FALSE]
    /\ data = [a \in Apis |-> 0]
    /\ failed_poll_attempts = 0
    /\ pc = [t \in Tasks |-> "idle"]
    /\ current_mode = [t \in Tasks |-> "none"]
    /\ ho_log = [t \in Tasks |-> <<>>]
    /\ ho_snap = [t \in Tasks |-> -1]
    /\ ho_polled = [t \in Tasks |-> FALSE]
    /\ rf_pc = "idle"
    /\ rf_read_api = "none"
    /\ rf_read_mode = "none"
    /\ rf_log = <<>>
    /\ rf_over = FALSE
    /\ obs = NoObs
    /\ setup = SetupIdle
    /\ fireplace = FactoryDefault
    /\ hass_data = FALSE
    /\ forwarded = FALSE
    /\ sw = SwitchIdle
    /\ attr_device_info = NoDeviceInfo
    /\ device_info_read = NoRead

Next ==
    \/ GetReadApi /\ UNCHANGED <<setupVars, entityVars>>
    \/ GetControlApi /\ UNCHANGED <<setupVars, entityVars>>
    \/ \E mode \in Modes : SetReadMode(mode) /\ UNCHANGED <<setupVars, entityVars>>
    \/ \E t \in Serialized, mode \in Modes :
          SetControlModeCall(t, mode) /\ UNCHANGED <<setupVars, entityVars>>
    \/ \E t \in Serialized : SetControlModeCopy(t) /\ UNCHANGED <<setupVars, entityVars>>
    \/ \E t \in Serialized : SetControlModeReturn(t) /\ UNCHANGED <<setupVars, entityVars>>
    \/ \E c \in Commands : SwitchCommand(c) /\ UNCHANGED <<setupVars, entityVars>>
    \/ UpdateBegin /\ UNCHANGED <<setupVars, entityVars>>
    \/ UpdateAfterStart /\ UNCHANGED <<setupVars, entityVars>>
    \/ \E outcome \in PollOutcomes, snapshot \in Snapshots :
          UpdatePollDone(outcome, snapshot) /\ UNCHANGED <<setupVars, entityVars>>
    \/ \E api \in Apis, snapshot \in Snapshots :
          BackgroundPollOk(api, snapshot) /\ UNCHANGED <<setupVars, entityVars>>
    \/ BackgroundPollFail /\ UNCHANGED <<setupVars, entityVars>>

Spec == Init /\ [][Next]_vars

\* Two set_control_mode calls issued without waiting for each other, next to
\* the transports' polling and the cloud_read switch.
NextRace ==
    \/ \E t \in Tasks, mode \in Modes :
          SetControlModeCall(t, mode) /\ UNCHANGED <<setupVars, entityVars>>
    \/ \E t \in Tasks : SetControlModeCopy(t) /\ UNCHANGED <<setupVars, entityVars>>
    \/ \E t \in Tasks : SetControlModeReturn(t) /\ UNCHANGED <<setupVars, entityVars>>
    \/ \E mode \in Modes : SetReadMode(mode) /\ UNCHANGED <<setupVars, entityVars>>
    \/ \E api \in Apis, snapshot \in Snapshots :
          BackgroundPollOk(api, snapshot) /\ UNCHANGED <<setupVars, entityVars>>

SpecRace == Init /\ [][NextRace]_vars

\* The entities of one configured fireplace and their coordinator.
SpecEntity == Init /\ [][NextEntity]_vars

\* The mode sensors and mode switches read while the modes are switched.
NextModes ==
    \/ \E key \in ModeSensorKeys :
          SensorNativeValue(key) /\ UNCHANGED <<setupVars, entityVars>>
    \/ \E key \in ModeSwitchKeys :
          SwitchIsOn(key) /\ UNCHANGED <<setupVars, entityVars>>
    \/ \E mode \in Modes : SetReadMode(mode) /\ UNCHANGED <<setupVars, entityVars>>
    \/ \E t \in Serialized, mode \in Modes :
          SetControlModeCall(t, mode) /\ UNCHANGED <<setupVars, entityVars>>
    \/ \E t \in Serialized :
          SetControlModeCopy(t) /\ UNCHANGED <<setupVars, entityVars>>
    \/ \E t \in Serialized :
          SetControlModeReturn(t) /\ UNCHANGED <<setupVars, entityVars>>
    \/ \E api \in Apis, snapshot \in Snapshots :
          BackgroundPollOk(api, snapshot) /\ UNCHANGED <<setupVars, entityVars>>

SpecModes == Init /\ [][NextModes]_vars

\* Setting up one configuration entry.
SpecSetup == Init /\ [][NextSetup]_vars

\* The event loop runs a coroutine that is ready: the loop test and the end
\* of a sleep are not postponed for ever.
SpecSetupFair ==
    /\ Init
    /\ [][NextSetup]_vars
    /\ WF_vars(SetupWaitCheck /\ UNCHANGED <<coordinatorVars, entityVars>>)
    /\ WF_vars(SetupWaitSleep /\ UNCHANGED <<coordinatorVars, entityVars>>)

----------------------------------------------------------------------------
(* Vocabulary of the properties.                                           *)

\* The transport a mode flag stands for.
TransportOf(mode) == IF mode = "LOCAL" THEN "local" ELSE "cloud"

OtherMode(mode) == IF mode = "LOCAL" THEN "CLOUD" ELSE "LOCAL"

\* How often a transport operation occurs in a log of transport calls.
CallCount(log, op) == Cardinality({i \in DOMAIN log : log[i][1] = op})

\* The three transport steps of a handover away from mode cur, in order.
HandoverSteps(cur) ==
    << <<"stop_background_polling", TransportOf(cur)>>,
       <<"overwrite_data", TransportOf(OtherMode(cur))>>,
       <<"start_background_polling", TransportOf(OtherMode(cur))>> >>

RefreshEnded == obs.ev = "refresh"

HandoverEnded == obs.ev = "set_control_mode" /\ obs.res = "handover"

----------------------------------------------------------------------------
\* C1: for every pair of mode flags get_read_api() returns the local
\* transport exactly when read_mode is LOCAL and the cloud transport
\* otherwise, get_control_api() does the same for control_mode, and a call of
\* either selector changes no coordinator, transport or coroutine state.
C1_SelectorsMatchFlags ==
    /\ [](/\ obs.ev = "get_read_api" =>
               /\ obs.api \in Apis
               /\ obs.api = "local" <=> read_mode = "LOCAL"
          /\ obs.ev = "get_control_api" =>
               /\ obs.api \in Apis
               /\ obs.api = "local" <=> control_mode = "LOCAL")
    /\ [][(GetReadApi \/ GetControlApi) =>
             UNCHANGED <<coordVars, taskVars, refreshVars>>]_vars

\* The read selector returned the cloud transport while control is local.
C1_Witness ==
    /\ obs.ev = "get_read_api"
    /\ obs.api = "cloud"
    /\ read_mode = "CLOUD"
    /\ control_mode = "LOCAL"

----------------------------------------------------------------------------
\* C2: a set_control_mode(mode) call with mode different from the current
\* control mode makes exactly three transport calls, in both directions:
\* stop on the transport of the current mode, then overwrite of the target's
\* snapshot with the current transport's snapshot, then start on the target;
\* the old transport is not polling in the background at the moment of the
\* copy, and the start does not come before the copy.
C2_StopCopyStart ==
    [][\A t \in Tasks :
         /\ (pc[t] = "idle" /\ pc'[t] = "await_stop") =>
               ho_log'[t] = SubSeq(HandoverSteps(control_mode), 1, 1)
         /\ (pc[t] = "await_stop" /\ pc'[t] = "await_start") =>
               /\ ~polling[TransportOf(current_mode[t])]
               /\ data'[TransportOf(OtherMode(current_mode[t]))]
                     = data[TransportOf(current_mode[t])]
               /\ ho_log'[t] = HandoverSteps(current_mode[t])
         /\ (pc[t] = "await_start" /\ pc'[t] = "idle") =>
               obs'.log = HandoverSteps(current_mode[t])]_vars

\* The order of the three calls alone, without the state of the old transport.
C2_OrderOnly ==
    [][\A t \in Tasks :
         /\ (pc[t] = "idle" /\ pc'[t] = "await_stop") =>
               ho_log'[t] = SubSeq(HandoverSteps(control_mode), 1, 1)
         /\ (pc[t] = "await_stop" /\ pc'[t] = "await_start") =>
               /\ data'[TransportOf(OtherMode(current_mode[t]))]
                     = data[TransportOf(current_mode[t])]
               /\ ho_log'[t] = HandoverSteps(current_mode[t])
         /\ (pc[t] = "await_start" /\ pc'[t] = "idle") =>
               obs'.log = HandoverSteps(current_mode[t])]_vars

----------------------------------------------------------------------------
\* C3: once a handover has completed, get_control_mode() is the mode switched
\* to, get_control_api() is that mode's transport, the cloud_control switch
\* (get_control_mode() == CLOUD) reports accordingly, and a flame or pilot
\* command goes to that transport.
C3_ControlFollowsSwitch ==
    /\ HandoverEnded =>
          /\ get_control_mode = obs.mode
          /\ obs.api = TransportOf(obs.mode)
          /\ (get_control_mode = "CLOUD") <=> (obs.mode = "CLOUD")
    /\ obs.ev \in Commands => obs.api = TransportOf(control_mode)

----------------------------------------------------------------------------
----------------------------------------------------------------------------
\* C5: set_control_mode(X) with X already the control mode makes no
\* transport call, raises nothing, and leaves both mode flags, both polling
\* flags, both snapshots and the failure counter as they were.
C5_SameModeIsNoOp ==
    [][\A t \in Tasks, mode \in Modes :
         (mode = control_mode /\ SetControlModeCall(t, mode)) =>
             /\ UNCHANGED <<coordVars, taskVars, refreshVars>>
             /\ obs'.ev = "set_control_mode"
             /\ obs'.res = "noop"
             /\ obs'.log = <<>>]_vars

\* A no-op call returned while the control transport was polling.
C5_Witness ==
    /\ obs.ev = "set_control_mode"
    /\ obs.res = "noop"
    /\ obs.mode = control_mode
    /\ polling[TransportOf(control_mode)]

----------------------------------------------------------------------------
\* C6 (as claimed): a refresh during which the local transport's
\* failed-poll counter is above 10, from its beginning to its end, ends by
\* raising UpdateFailed and returns no snapshot, whatever the read mode.
C6_OverLimitRaisesUpdateFailed ==
    (RefreshEnded /\ obs.over /\ failed_poll_attempts > 10) =>
        (obs.res = "UpdateFailed" /\ obs.val = -1)

\* C6 (amended): a refresh that ends with the local counter above 10 returns
\* no snapshot, for read_mode LOCAL and CLOUD alike: it raises UpdateFailed,
\* at the threshold check or for a failed forced poll, except that a forced
\* poll cut off by the 15 s timeout ends it with TimeoutError before the
\* threshold check; with the counter at 10 or less the threshold check lets
\* the snapshot through.
C6_ThresholdAtCheck ==
    RefreshEnded =>
        /\ obs.mode \in Modes
        /\ (failed_poll_attempts > 10) =>
              /\ obs.val = -1
              /\ \/ obs.res = "UpdateFailed"
                 \/ obs.res = "TimeoutError" /\ obs.poll = "TimeoutError"
        /\ (obs.at = "check" /\ failed_poll_attempts > 10) =>
              obs.res = "UpdateFailed"
        /\ (obs.at = "check" /\ failed_poll_attempts <= 10) =>
              (obs.res = "data" /\ obs.val \in Snapshots)

\* Eleven failed local polls fail a refresh that reads from the cloud.
C6_Witness ==
    /\ RefreshEnded
    /\ obs.at = "check"
    /\ obs.mode = "CLOUD"
    /\ failed_poll_attempts = 11
    /\ obs.res = "UpdateFailed"

----------------------------------------------------------------------------
\* C7: a refresh calls start_background_polling() only on its read transport
\* and only when that transport is not polling, at most once per refresh; a
\* refresh that finds its read transport polling makes no start call, so the
\* refreshes that follow while the transport stays active start nothing.
C7_StartOnlyWhenInactive ==
    /\ [](/\ CallCount(rf_log, "start_background_polling") <= 1
          /\ RefreshEnded =>
               /\ CallCount(obs.log, "start_background_polling") <= 1
               /\ \A i \in DOMAIN obs.log :
                     obs.log[i][1] = "start_background_polling" =>
                         obs.log[i][2] = obs.api)
    /\ [][(UpdateBegin /\ polling[TransportOf(read_mode)]) =>
             /\ UNCHANGED <<polling, rf_log>>
             /\ obs'.ev = "refresh"
             /\ CallCount(obs'.log, "start_background_polling") = 0]_vars
    /\ [][(UpdateBegin /\ ~polling[TransportOf(read_mode)]) =>
             /\ rf_log' = << <<"start_background_polling",
                               TransportOf(read_mode)>> >>
             /\ polling'[TransportOf(read_mode)]]_vars

\* A refresh that started the polling of its read transport has ended.
C7_Witness ==
    /\ RefreshEnded
    /\ obs.res = "data"
    /\ CallCount(obs.log, "start_background_polling") = 1
    /\ polling[obs.api]

----------------------------------------------------------------------------
\* C8: a refresh polls the local transport at most once, and only when its
\* read transport was not polling when it began (so that it started it) and
\* its read mode is LOCAL; with read mode CLOUD, or with the read transport
\* already polling, it makes no poll() call.
C8_ForcedPollOnce ==
    /\ [](/\ CallCount(rf_log, "poll") <= 1
          /\ RefreshEnded =>
               /\ CallCount(obs.log, "poll") <= 1
               /\ CallCount(obs.log, "poll") = 1 <=>
                     /\ obs.mode = "LOCAL"
                     /\ CallCount(obs.log, "start_background_polling") = 1
               /\ obs.mode = "CLOUD" => CallCount(obs.log, "poll") = 0)
    /\ [][(UpdateBegin /\ polling[TransportOf(read_mode)]) =>
             /\ rf_pc' = "idle"
             /\ obs'.ev = "refresh"
             /\ CallCount(obs'.log, "poll") = 0]_vars

\* A refresh made its one forced poll and returned the snapshot.
C8_Witness ==
    /\ RefreshEnded
    /\ obs.res = "data"
    /\ obs.mode = "LOCAL"
    /\ obs.log = << <<"start_background_polling", "local">>,
                    <<"poll", "local">> >>

----------------------------------------------------------------------------
\* C9: when the forced poll fails with ConnectionError or
\* ClientConnectionError the refresh ends by raising UpdateFailed and
\* returns no snapshot.
C9_ConnectionErrorBecomesUpdateFailed ==
    (RefreshEnded /\ obs.poll \in {"ConnectionError", "ClientConnectionError"}) =>
        /\ obs.res = "UpdateFailed"
        /\ obs.val = -1

\* The forced poll failed with aiohttp's ClientConnectionError.
C9_Witness ==
    /\ RefreshEnded
    /\ obs.poll = "ClientConnectionError"
    /\ obs.res = "UpdateFailed"

----------------------------------------------------------------------------
\* C10: a refresh that succeeds returns the snapshot currently held by the
\* transport of the read mode it began with; in particular the first refresh
\* begun after set_read_mode(M) returns transport M's snapshot.
C10_ReturnsReadSnapshot ==
    /\ []((RefreshEnded /\ obs.res = "data") =>
             obs.val = data[TransportOf(obs.mode)])
    /\ [][(rf_pc = "idle" /\ rf_pc' # "idle") => rf_read_mode' = read_mode]_vars
    /\ [][(UpdateBegin /\ rf_pc' = "idle" /\ obs'.res = "data") =>
             obs'.val = data'[TransportOf(read_mode)]]_vars

\* A refresh in cloud read mode returned the cloud snapshot, not the local one.
C10_Witness ==
    /\ RefreshEnded
    /\ obs.res = "data"
    /\ obs.mode = "CLOUD"
    /\ read_mode = "CLOUD"
    /\ data["cloud"] # data["local"]
    /\ obs.val = data["cloud"]

----------------------------------------------------------------------------
\* C11: set_read_mode(mode) sets read_mode to mode and nothing else: no
\* polling flag, not control_mode, no snapshot, no coroutine in flight; the
\* next refresh to begin starts the background polling of the selected read
\* transport when it is not running.
C11_SetReadModeOnlySetsFlag ==
    /\ [][\A mode \in Modes :
            SetReadMode(mode) =>
                /\ read_mode' = mode
                /\ UNCHANGED <<control_mode, polling, data, failed_poll_attempts,
                               taskVars, refreshVars>>]_vars
    /\ [][(UpdateBegin /\ ~polling[TransportOf(read_mode)]) =>
             /\ polling'[TransportOf(read_mode)]
             /\ \A a \in Apis : a # TransportOf(read_mode) =>
                                   polling'[a] = polling[a]]_vars

\* The read mode was switched to CLOUD and the cloud transport is not polling.
C11_Witness ==
    /\ obs.ev = "set_read_mode"
    /\ obs.mode = "CLOUD"
    /\ read_mode = "CLOUD"
    /\ ~polling["cloud"]
    /\ polling["local"]

----------------------------------------------------------------------------
\* C12: read_mode changes only in set_read_mode and control_mode only in
\* set_control_mode; refresh, selectors, commands and polls change neither;
\* a completed handover to mode M leaves control_mode = M without touching
\* read_mode, so that every pair of flags can be reached from LOCAL/LOCAL by
\* set_read_mode and set_control_mode calls.
C12_FlagsIndependentAndReachable ==
    [][/\ read_mode' # read_mode => \E mode \in Modes : SetReadMode(mode)
       /\ control_mode' # control_mode =>
             \E t \in Tasks : pc[t] # "idle" \/ pc'[t] # "idle"
       /\ (\E mode \in Modes : SetReadMode(mode)) => control_mode' = control_mode
       /\ \A t \in Tasks :
             (pc[t] = "await_start" /\ pc'[t] = "idle") =>
                 /\ control_mode' = OtherMode(current_mode[t])
                 /\ read_mode' = read_mode]_vars

\* What the code does instead: no step changes control_mode.
C12_ControlModeNeverChanges == [][control_mode' = control_mode]_vars

----------------------------------------------------------------------------
\* C13: with two set_control_mode calls issued concurrently, no step of one
\* handover (its stop, its copy and start, its return) is executed while the
\* other is between its stop and its start.
C13_HandoverUninterrupted ==
    [][\A t \in Tasks, u \in Tasks :
         (t # u /\ pc[t] = "await_stop" /\ pc'[t] = "await_stop") =>
             (pc'[u] = pc[u] /\ ho_log'[u] = ho_log[u])]_vars


C15_IdentityReportedAtConstruction ==
    setup.constructed =>
        /\ fireplace.ipv4_address # "127.0.0.1"
        /\ fireplace.serial # "unset"

\* What the loop test does give: at construction the two fields are not both
\* placeholders.
C15_NotBothPlaceholders == setup.constructed => ~StillInitializing(fireplace)

\* C16: when the device never leaves its placeholder identity the wait is cut
\* off at the bound and setup fails, surfaced as not ready, with no
\* coordinator constructed or registered and no platform forwarded.
C16_TimeoutSurfacedAsNotReady ==
    (setup.pc = "done" /\ setup.elapsed = InitTimeout) =>
        /\ setup.result = "ConfigEntryNotReady"
        /\ ~setup.constructed
        /\ ~hass_data
        /\ ~forwarded

\* What the cut-off does give: TimeoutError, and nothing left behind.
C16_TimeoutLeavesNothingBehind ==
    (setup.pc = "done" /\ setup.elapsed = InitTimeout) =>
        /\ setup.result = "TimeoutError"
        /\ ~setup.constructed
        /\ ~hass_data
        /\ ~forwarded

\* The wait always ends.
C16_WaitAlwaysEnds ==
    (setup.pc \in {"wait", "sleep"}) ~> (setup.pc \notin {"wait", "sleep"})

\* A device that has left the placeholder identity before the last sleep
\* gets to the first refresh.
C16_ReportedInTimeProceeds ==
    (/\ setup.pc \in {"wait", "sleep"}
     /\ ~StillInitializing(fireplace)
     /\ setup.elapsed + SleepSeconds < InitTimeout) ~> (setup.pc = "refresh")



\* C17: a switch's async_turn_on / async_turn_off awaits its command (a call
\* into the control transport, or a mode change) to completion and then
\* forces a re-read of the coordinator; the re-read never comes before the
\* command has returned, and when the command raises no re-read is forced.
C17_CommandThenReRead ==
    /\ [](sw.pc = "reread" => (sw.log = <<"command">> /\ pc["cmd"] = "idle"))
    /\ [](sw.result = "done" => sw.log = <<"command", "reread">>)
    /\ [](sw.result = "raised" => sw.log = <<"raise">>)
    /\ [][(sw.pc = "command" /\ sw'.pc = "idle") => sw'.result = "raised"]_vars
    /\ [][(sw'.log # sw.log /\ sw'.log # <<>> /\ sw'.log[Len(sw'.log)] = "reread") =>
            /\ sw.log = <<"command">>
            /\ \/ rf_pc' = "await_start"
               \/ obs'.ev = "refresh"]_vars

C17_Witness ==
    /\ sw.result = "done"
    /\ sw.key = "cloud_control"
    /\ obs.ev = "refresh"

\* C18: the device identity descriptor is not cached: every read of it,
\* through the coordinator or through an entity, gives the serial and the
\* firmware version of the snapshot the read transport holds at that moment.
C18_DeviceInfoNeverStale ==
    device_info_read.by # "none" =>
        /\ device_info_read.value.identifiers[2][1] = SerialOf(data[get_read_api])
        /\ device_info_read.value.sw_version = FwVerStrOf(data[get_read_api])

\* What holds: a read through the coordinator is computed at the read, with
\* the identifier f"{serial}]"; a read through an entity gives the descriptor
\* stored when the entity was constructed.
C18_CoordinatorRecomputes ==
    /\ device_info_read.by = "coordinator" =>
          device_info_read.value =
              [identifiers |-> <<"IntelliFire",
                                 <<SerialOf(data[get_read_api]), "]">> >>,
               sw_version |-> FwVerStrOf(data[get_read_api])]
    /\ device_info_read.by = "entity" => device_info_read.value = attr_device_info
    /\ [][attr_device_info # NoDeviceInfo =>
            attr_device_info' = attr_device_info]_vars



\* C19: after set_control_mode(CLOUD) has handed over from LOCAL, a call of
\* set_control_mode(LOCAL) performs a second handover, which stops the cloud
\* transport's polling, and a second call of set_control_mode(CLOUD) returns
\* without performing the stop/copy/start sequence again.
C19_RoundTripAndRepeat ==
    [][(/\ obs.ev = "set_control_mode"
        /\ obs.res = "handover"
        /\ obs.from = "LOCAL"
        /\ obs.mode = "CLOUD") =>
           /\ SetControlModeCall("cmd", "LOCAL") =>
                 /\ pc'["cmd"] = "await_stop"
                 /\ ~polling'["cloud"]
           /\ SetControlModeCall("cmd", "CLOUD") =>
                 /\ obs'.res = "noop"
                 /\ pc'["cmd"] = "idle"]_vars

\* C20: the copy of a handover leaves the target's snapshot as it is when the
\* target's background polling is running at the time of the copy.
C20_CopySparesPollingTarget ==
    [][\A t \in Tasks :
         (/\ pc[t] = "await_stop"
          /\ pc'[t] = "await_start"
          /\ polling[HandoverTo(current_mode[t])]) =>
              data'[HandoverTo(current_mode[t])] = data[HandoverTo(current_mode[t])]]_vars



\* C21: when a refresh has finished, with a snapshot or with UpdateFailed,
\* the transport its read mode selected when it began has background polling
\* running.
C21_ReadTransportPollingAfterRefresh ==
    (RefreshEnded /\ obs.res \in {"data", "UpdateFailed"}) => polling[obs.api]

\* What holds: a refresh leaves its read transport polling unless a handover
\* stopped that transport while the refresh was suspended; a refresh that
\* makes no await always does.
C21_PollingUnlessHandoverInterleaved ==
    /\ [][UpdateBegin => polling'[TransportOf(read_mode)]]_vars
    /\ [][(UpdateBegin /\ polling[TransportOf(read_mode)]) =>
             (obs'.ev = "refresh" /\ polling'[obs'.api])]_vars
    /\ [][(rf_pc # "idle" /\ polling[rf_read_api] /\ ~polling'[rf_read_api]) =>
             \E t \in Tasks : pc[t] = "idle" /\ pc'[t] = "await_stop"]_vars



\* C22: for every pair of mode flags the sensor with key control_mode
\* reports the control mode and the sensor with key read_mode reports the
\* read mode, as "local" or "cloud", and the cloud_read and cloud_control
\* switches are on exactly when read_mode, respectively control_mode, is
\* CLOUD.
C22_ModeEntitiesReportTheirMode ==
    /\ (obs.ev = "native_value" /\ obs.key = "control_mode") =>
           obs.res = NameLower(control_mode)
    /\ (obs.ev = "native_value" /\ obs.key = "read_mode") =>
           obs.res = NameLower(read_mode)
    /\ (obs.ev = "is_on" /\ obs.key = "cloud_read") =>
           (obs.on <=> read_mode = "CLOUD")
    /\ (obs.ev = "is_on" /\ obs.key = "cloud_control") =>
           (obs.on <=> control_mode = "CLOUD")

\* What holds: the two switches report their own mode, and each of the two
\* sensors reports the other sensor's mode.
C22_SensorsSwapped ==
    /\ (obs.ev = "native_value" /\ obs.key = "control_mode") =>
           obs.res = NameLower(read_mode)
    /\ (obs.ev = "native_value" /\ obs.key = "read_mode") =>
           obs.res = NameLower(control_mode)
    /\ (obs.ev = "is_on" /\ obs.key = "cloud_read") =>
           (obs.on <=> read_mode = "CLOUD")
    /\ (obs.ev = "is_on" /\ obs.key = "cloud_control") =>
           (obs.on <=> control_mode = "CLOUD")



\* C23: over any sequence of setups and unloads of the entry, the
\* coordinator enters hass.data only at the step after a successful first
\* refresh and leaves it only by an unload whose platform unload succeeded:
\* a setup that failed holds nothing registered, a failed unload leaves the
\* coordinator registered and returns False, a successful one removes it and
\* returns True.
C23_RegistryFollowsSetupAndUnload ==
    /\ [][hass_data' # hass_data =>
            IF hass_data'
              THEN setup.pc = "refresh" /\ setup'.pc = "forward"
              ELSE obs'.ev = "async_unload_entry" /\ obs'.on]_vars
    /\ [][\A ok \in BOOLEAN : SetupFirstRefresh(ok) => (hass_data' <=> ok)]_vars
    /\ [][\A unload_ok \in BOOLEAN :
            AsyncUnloadEntry(unload_ok) =>
                /\ hass_data' <=> ~unload_ok
                /\ obs'.on <=> unload_ok]_vars
    /\ [](setup.result \in {"ConfigEntryAuthFailed", "TimeoutError",
                            "ConfigEntryNotReady"} => ~hass_data)
    /\ [](setup.pc \in {"probe", "wait", "sleep", "refresh"} => ~hass_data)
    /\ [](setup.pc = "forward" => hass_data)

\* A failed unload left the coordinator registered.
C23_Witness ==
    /\ obs.ev = "async_unload_entry"
    /\ ~obs.on
    /\ hass_data
    /\ setup.result = "True"

====
